---- MODULE Spec2Model ----
(***************************************************************************)
(* Model of notebooks/preproc/inference.py: the document-to-page-image     *)
(* pipeline (resize_image, clean_document_for_img_ocr), its batch drivers  *)
(* (clean_dataset_for_img_ocr and the worker-pool main loop) and the       *)
(* real-time handlers (input_fn, predict_fn, output_fn).                   *)
(*                                                                         *)
(* Conventions                                                             *)
(*  - Python None and an empty tuple are the empty sequence <<>>; an       *)
(*    optional value v is <<v>> (max_size) or the tuple itself (colour).   *)
(*  - A size is always a sequence: <<s>> for a single number (what line    *)
(*    103 turns a bare int into) or <<w, h>>.                              *)
(*  - An image is its geometry and provenance, not its pixels.             *)
(*  - A path is <<root, subfolder, stem, suffix, ext>>; suffix <<>> is no  *)
(*    page suffix, <<k>> is "-%04i" % k, <<1, k>> is what pdf2image adds   *)
(*    to the prefix "stem-" for page k.                                    *)
(*  - int(a * b / c) on positive ints is floor division here: Python's     *)
(*    float result equals it for every operand the bounds below allow      *)
(*    (the two differ only from dimensions of 15 upwards).                 *)
(***************************************************************************)
EXTENDS Integers, Sequences, FiniteSets, TLC

VARIABLES
    image,          \* resize scenario: the source image handed to resize_image
    resize_args,    \* resize scenario: size, default_square, letterbox_color, max_size
    resized,        \* resize scenario: what resize_image did (NotCalled before)
    document,       \* document scenario: the source file given to clean_document_for_img_ocr
    call_args,      \* document scenario: the keyword arguments of that call
    returned,       \* document scenario: how the call ended (NotCalled before)
    disk,           \* the files written so far: path -> content
    listing,        \* batch: the documents to process (rel_filepaths_all / filepaths)
    job,            \* batch: driver, state, n_workers, thumbnails folder, loop index
    tasks,          \* batch: worker pool, the state of each document's task
    ready,          \* batch: worker pool, finished tasks not yet seen by the main loop
    results,        \* batch: what the driver's loop has received so far
    request,        \* real time: content type, accept type and payload of the request
    env,            \* real time: the RT_* settings read when the module is loaded
    handler,        \* real time: the handler to run next, or "responded" / "failed"
    input_data,     \* real time: what input_fn returned
    prediction,     \* real time: what predict_fn returned
    response,       \* real time: what output_fn returned, or the error that ended the request
    tmpdirs         \* real time: the temporary directories that exist

resizeVars == <<image, resize_args, resized>>

docVars == <<document, call_args, returned>>

batchVars == <<listing, job, tasks, ready, results>>

rtVars == <<request, env, handler, input_data, prediction, response, tmpdirs>>

vars == <<image, resize_args, resized, document, call_args, returned, disk,
          listing, job, tasks, ready, results,
          request, env, handler, input_data, prediction, response, tmpdirs>>

-----------------------------------------------------------------------------
(* Bounds *)

MaxDim == 6         \* source image width / height range 1..MaxDim
MaxSize == 3        \* requested size components range 1..MaxSize
MaxMaxSize == 4     \* max_size range 1..MaxMaxSize
MaxFrames == 2      \* frames of an image file range 1..MaxFrames
MaxPages == 2       \* pages of a PDF range 0..MaxPages
MaxOrientation == 9 \* EXIF orientation values 1..8 and one unrecognized value
MaxDocs == 2        \* documents in a batch listing range 1..MaxDocs
MaxWorkers == 2     \* worker processes range 1..MaxWorkers

-----------------------------------------------------------------------------
(* Python values *)

None == <<>>

NotCalled == [kind |-> "NotCalled"]

Min(a, b) == IF a <= b THEN a ELSE b

Max(a, b) == IF a >= b THEN a ELSE b

-----------------------------------------------------------------------------
(* resize_image *)

\* What a call of resize_image does: kind is "unchanged" (the source object is
\* returned), "resized" (a new image of `size`), "None" (the call returned
\* None) or "ValueError" (it raised; `why` says which check).  `size` is the
\* target size the call computed, `inner`/`offset` the letterbox placement.
Outcome(kind, size, why, inner, offset) ==
    [kind |-> kind, size |-> size, why |-> why, inner |-> inner, offset |-> offset]

\* PIL Image.resize: a new image of exactly `size`; PIL refuses an empty
\* target ("height and width must be > 0").
PIL_resize_ok(size) == size[1] >= 1 /\ size[2] >= 1

\* line 113
ShortLong(iw, ih) == IF iw <= ih THEN <<iw, ih>> ELSE <<ih, iw>>

\* line 115
NeverIdentity(short, ishort) == FALSE

IsIdentity(short, ishort) == short = ishort

\* line 118
ScaledLong(short, ishort, ilong) == (short * ilong) \div ishort

\* lines 121-122
InvalidMaxSizeOffByOne(max_size, short) == max_size # None /\ max_size[1] < short

InvalidMaxSize(max_size, short) == max_size # None /\ max_size[1] <= short

\* lines 127-128
ClampNever(short, long, max_size) == <<short, long>>

ClampToMaxSize(short, long, max_size) ==
    IF max_size # None /\ long > max_size[1]
    THEN <<(max_size[1] * short) \div long, max_size[1]>>
    ELSE <<short, long>>

\* line 130
OrientSize(iw, ih, short, long) == IF iw <= ih THEN <<short, long>> ELSE <<long, short>>

\* lines 134-138: scale = min(w / iw, h / ih); (int(iw * scale), int(ih * scale))
LetterboxInner(iw, ih, w, h) ==
    IF w * ih <= h * iw
    THEN <<(iw * w) \div iw, (ih * w) \div iw>>
    ELSE <<(iw * h) \div ih, (ih * h) \div ih>>

\* lines 132-146, with `size` already a pair
FitToSize(iw, ih, size, letterbox_color) ==
    IF letterbox_color # None
    THEN LET inner == LetterboxInner(iw, ih, size[1], size[2])
             offset == <<(size[1] - inner[1]) \div 2, (size[2] - inner[2]) \div 2>>
         IN  IF PIL_resize_ok(inner)
             \* result.paste(...) pastes in place and returns None
             THEN Outcome("None", size, "", inner, offset)
             ELSE Outcome("ValueError", size, "resize", inner, offset)
    ELSE IF PIL_resize_ok(size)
         THEN Outcome("resized", size, "", None, None)
         ELSE Outcome("ValueError", size, "resize", None, None)

\* lines 99-146
resize_image(img, size, default_square, letterbox_color, max_size) ==
    LET iw == img.w
        ih == img.h
    IN  IF Len(size) = 1
        THEN IF default_square
             THEN FitToSize(iw, ih, <<size[1], size[1]>>, letterbox_color)
             ELSE LET short == size[1]
                      ishort == ShortLong(iw, ih)[1]
                      ilong == ShortLong(iw, ih)[2]
                      long == ScaledLong(short, ishort, ilong)
                      sl == ClampToMaxSize(short, long, max_size)
                  IN  IF IsIdentity(short, ishort)
                      THEN Outcome("unchanged", <<iw, ih>>, "", None, None)
                      ELSE IF InvalidMaxSize(max_size, short)
                           THEN Outcome("ValueError", None, "max_size", None, None)
                           ELSE FitToSize(iw, ih, OrientSize(iw, ih, sl[1], sl[2]),
                                          letterbox_color)
        ELSE FitToSize(iw, ih, size, letterbox_color)

-----------------------------------------------------------------------------
(* Source documents and files *)

\* exif.get(ORIENTATION_EXIF_ID) when the tag is absent (Python None)
NoOrientation == 0

Orientations == NoOrientation..MaxOrientation

\* File contents.  "garbage" is what neither PIL nor pdf2image can decode; a
\* "pdf" has Len(frames) pages; an "image" has Len(frames) frames, frames[k]
\* being the EXIF orientation stored with frame k.  w, h: size of every page.
Garbage == [kind |-> "garbage", w |-> 0, h |-> 0, frames |-> <<>>]

PdfBytes(w, h, n) == [kind |-> "pdf", w |-> w, h |-> h, frames |-> [k \in 1..n |-> NoOrientation]]

ImageBytes(w, h, orientations) == [kind |-> "image", w |-> w, h |-> h, frames |-> orientations]

\* A source file: rel_filepath = subfolder/basename.ext, and its bytes.
SourceFile(subfolder, basename, ext, data) ==
    [subfolder |-> subfolder, basename |-> basename, ext |-> ext, data |-> data]

\* line 216: ext.lower(), on the extensions the model uses
Lower(ext) ==
    CASE ext = "JPG" -> "jpg"
      [] ext = "PNG" -> "png"
      [] ext = "TIFF" -> "tiff"
      [] ext = "PDF" -> "pdf"
      [] OTHER -> ext

\* lines 211, 292, 295-305: os.path.join(outfolder, name)
Path(root, subfolder, stem, suffix, ext) == <<root, subfolder, stem, suffix, ext>>

\* lines 241, 309: path.replace(to_basepath, thumbs_basepath)
ReplaceRoot(path, to_basepath, thumbs_basepath) ==
    IF path[1] = to_basepath THEN [path EXCEPT ![1] = thumbs_basepath] ELSE path

\* The image object a PIL call hands back.  `file` says it is still the opened
\* file object (which can seek); `frame` is the stored frame it shows, `angle`
\* the rotation applied to that frame so far.
ImageObject(file, frame, w, h, angle, orientation) ==
    [file |-> file, frame |-> frame, w |-> w, h |-> h, angle |-> angle,
     orientation |-> orientation]

\* line 260 / 273: the opened file positioned on frame k
FrameOf(data, k) == ImageObject(TRUE, k, data.w, data.h, 0, data.frames[k])

\* PIL Image.rotate(angle, expand=True): a new in-memory image, the canvas
\* grown to fit (width and height swap for a quarter turn)
PIL_rotate(img, angle) ==
    IF angle \in {90, 270}
    THEN ImageObject(FALSE, img.frame, img.h, img.w, (img.angle + angle) % 360,
                     img.orientation)
    ELSE ImageObject(FALSE, img.frame, img.w, img.h, (img.angle + angle) % 360,
                     img.orientation)

\* PIL Image.seek(k) (0-based): the file object moves to frame k; an in-memory
\* image has a single frame and raises EOFError for any other
PIL_seek_ok(img, ixpage) == img.file \/ ixpage = 0

PIL_seek(data, img, ixpage) == IF img.file THEN FrameOf(data, ixpage + 1) ELSE img

\* lines 278-288: the angle passed to image.rotate, 0 when none is made
RotationQuarterTurnsSwapped(img_orientation) ==
    CASE img_orientation = 3 -> 180
      [] img_orientation = 6 -> 90
      [] img_orientation = 8 -> 270
      [] OTHER -> 0

RotationFor(img_orientation) ==
    CASE img_orientation = 3 -> 180
      [] img_orientation = 6 -> 270
      [] img_orientation = 8 -> 90
      [] OTHER -> 0

\* lines 278-288: the `rotated` flag
Rotated(img_orientation) == img_orientation \in {3, 6, 8}

\* line 269
ConvertFormat(ext_lower, allowed_formats) == ext_lower \notin allowed_formats

\* line 290
CanCopyIgnoringRotation(n_image_pages, convert_format, rotated) ==
    n_image_pages = 1 /\ ~convert_format

CanCopy(n_image_pages, convert_format, rotated) ==
    n_image_pages = 1 /\ ~(convert_format \/ rotated)

\* lines 295-305
SavePath(outfolder, basename, ext, ixpage, n_image_pages, convert_format, preferred) ==
    Path(outfolder[1], outfolder[2], basename,
         IF n_image_pages > 1 THEN <<ixpage + 1>> ELSE <<>>,
         IF convert_format THEN preferred ELSE ext)

\* A file written: `how` is "copy" (shutil.copy2 of the source bytes), "save"
\* (image.save of a page), "pdf2image" (a rasterized PDF page), "thumb"
\* (a resized page) or "input" (the request body predict_fn stores); `img` is
\* the image written (None for a copy and for an input).
Written(path, how, source, img) == [path |-> path, how |-> how, source |-> source, img |-> img]

\* How a call of clean_document_for_img_ocr ended: "returned" (an
\* ImageExtractionResult with cleanpaths), "None" (document ignored) or
\* "raised" (`error` names the exception).  `pages` lists the image pages that
\* reached the write step, `writes` every file written, in order.
CallResult(status, error, cleanpaths, pages, writes) ==
    [kind |-> status, error |-> error, cleanpaths |-> cleanpaths,
     pages |-> pages, writes |-> writes]

\* lines 242-248, 310-316: resize_image(...).save(thumbpath); "" when saved
ThumbError(outcome) ==
    CASE outcome.kind = "ValueError" -> "ValueError"
      [] outcome.kind = "None" -> "AttributeError"
      [] OTHER -> ""

\* The image a successful thumbnail call saves
ThumbImage(img, outcome) ==
    IF outcome.kind = "unchanged"
    THEN img
    ELSE ImageObject(FALSE, img.frame, outcome.size[1], outcome.size[2], img.angle,
                     img.orientation)

ThumbOf(img, args) ==
    resize_image(img, args.thumbs_size, args.thumbs_default_square,
                 args.thumbs_letterbox_color, args.thumbs_max_size)

RelPath(doc) == <<doc.subfolder, doc.basename, doc.ext>>

\* lines 222-257: the PDF branch.  pdf2image.convert_from_path raises on bytes
\* that are no PDF; otherwise it writes one file per page into outfolder.
CleanPdf(doc, args) ==
    LET n == Len(doc.data.frames)
        page(k) == ImageObject(TRUE, k, doc.data.w, doc.data.h, 0, NoOrientation)
        pagepath(k) == Path(args.to_basepath, doc.subfolder, doc.basename, <<1, k>>,
                            args.pdf_image_format)
        mains == [k \in 1..n |-> Written(pagepath(k), "pdf2image", RelPath(doc), page(k))]
        thumb(k) == ThumbOf(page(k), args)
        thumbs == [k \in 1..n |->
                      Written(ReplaceRoot(pagepath(k), args.to_basepath, args.thumbs_basepath),
                              "thumb", RelPath(doc), ThumbImage(page(k), thumb(k)))]
    IN  IF doc.data.kind # "pdf"
        THEN CallResult("raised", "PDFPageCountError", <<>>, <<>>, <<>>)
        ELSE IF args.thumbs_basepath # "" /\ n > 0 /\ ThumbError(thumb(1)) # ""
             \* every page has the same size: the first thumbnail fails
             THEN CallResult("raised", ThumbError(thumb(1)), <<>>, <<>>, mains)
             ELSE CallResult("returned", "", [k \in 1..n |-> pagepath(k)], <<>>,
                             IF args.thumbs_basepath # "" THEN mains \o thumbs ELSE mains)

\* lines 271-328: the page loop from ixpage on; `img` is the variable `image`,
\* `acc` the result so far.
RECURSIVE ImagePages(_, _, _, _, _)
ImagePages(doc, args, ixpage, img, acc) ==
    LET n_image_pages == Len(doc.data.frames)
        convert_format == ConvertFormat(Lower(doc.ext), args.allowed_formats)
        sought == IF n_image_pages > 1 THEN PIL_seek(doc.data, img, ixpage) ELSE img
        img_orientation == sought.orientation
        rotated == Rotated(img_orientation)
        angle == RotationFor(img_orientation)
        cur == IF angle # 0 THEN PIL_rotate(sought, angle) ELSE sought
        copy == CanCopy(n_image_pages, convert_format, rotated)
        outpath == IF copy
                   THEN Path(args.to_basepath, doc.subfolder, doc.basename, <<>>, doc.ext)
                   ELSE SavePath(<<args.to_basepath, doc.subfolder>>, doc.basename, doc.ext,
                                 ixpage, n_image_pages, convert_format,
                                 args.preferred_image_format)
        main == IF copy
                THEN Written(outpath, "copy", RelPath(doc), None)
                ELSE Written(outpath, "save", RelPath(doc), cur)
        thumb == ThumbOf(cur, args)
        thumbfile == Written(ReplaceRoot(outpath, args.to_basepath, args.thumbs_basepath),
                             "thumb", RelPath(doc), ThumbImage(cur, thumb))
        page == [index |-> ixpage + 1, frame |-> cur.frame, orientation |-> img_orientation,
                 angle |-> cur.angle, rotated |-> rotated, how |-> main.how,
                 path |-> outpath, size |-> <<cur.w, cur.h>>]
    IN  IF ixpage >= n_image_pages
        THEN CallResult("returned", "", acc.cleanpaths, acc.pages, acc.writes)
        ELSE IF n_image_pages > 1 /\ ~PIL_seek_ok(img, ixpage)
        THEN CallResult("raised", "EOFError", <<>>, acc.pages, acc.writes)
        ELSE IF args.thumbs_basepath # "" /\ ThumbError(thumb) # ""
        THEN CallResult("raised", ThumbError(thumb), <<>>, Append(acc.pages, page),
                        Append(acc.writes, main))
        ELSE ImagePages(doc, args, ixpage + 1, cur,
                        [cleanpaths |-> Append(acc.cleanpaths, outpath),
                         pages |-> Append(acc.pages, page),
                         writes |-> IF args.thumbs_basepath # ""
                                    THEN acc.writes \o <<main, thumbfile>>
                                    ELSE Append(acc.writes, main)])

\* lines 149-331
clean_document_for_img_ocr(doc, args) ==
    IF Lower(doc.ext) = "pdf"
    THEN CleanPdf(doc, args)
    ELSE IF doc.data.kind # "image"
         \* PIL.Image.open raises UnidentifiedImageError: warning, return None
         THEN CallResult("None", "", <<>>, <<>>, <<>>)
         ELSE ImagePages(doc, args, 0, FrameOf(doc.data, 1),
                         [cleanpaths |-> <<>>, pages |-> <<>>, writes |-> <<>>])

\* The file system after `writes`, applied in order
WrittenPaths(writes) == {writes[i].path : i \in 1..Len(writes)}

LastWrite(writes, path) ==
    writes[CHOOSE i \in 1..Len(writes) :
              /\ writes[i].path = path
              /\ \A j \in (i + 1)..Len(writes) : writes[j].path # path]

DiskAfter(files, writes) ==
    [path \in (DOMAIN files) \cup WrittenPaths(writes) |->
        IF path \in WrittenPaths(writes) THEN LastWrite(writes, path) ELSE files[path]]

EmptyDisk == <<>>

-----------------------------------------------------------------------------
(* Resize scenario: resize_image applied to every bounded image and setting *)

Images == [w : 1..MaxDim, h : 1..MaxDim]

Sizes == {<<s>> : s \in 1..MaxSize} \cup {<<w, h>> : w \in 1..MaxSize, h \in 1..MaxSize}

LetterboxColors == {None, <<255, 255, 255>>}

MaxSizes == {None} \cup {<<m>> : m \in 1..MaxMaxSize}

ResizeArgs ==
    [size : Sizes, default_square : BOOLEAN,
     letterbox_color : LetterboxColors, max_size : MaxSizes]

\* Values of the variables a scenario does not use
IdleResize ==
    /\ image = [w |-> 1, h |-> 1]
    /\ resize_args = [size |-> <<1>>, default_square |-> TRUE,
                      letterbox_color |-> None, max_size |-> None]
    /\ resized = NotCalled

IdleDoc ==
    /\ document = SourceFile("", "", "", Garbage)
    /\ call_args = None
    /\ returned = NotCalled

IdleBatch ==
    /\ listing = <<>>
    /\ job = None
    /\ tasks = <<>>
    /\ ready = <<>>
    /\ results = <<>>

IdleRt ==
    /\ request = None
    /\ env = None
    /\ handler = "idle"
    /\ input_data = None
    /\ prediction = None
    /\ response = None
    /\ tmpdirs = {}

InitResize ==
    /\ image \in Images
    /\ resize_args \in ResizeArgs
    /\ resized = NotCalled
    /\ IdleDoc
    /\ IdleBatch
    /\ IdleRt
    /\ disk = EmptyDisk

CallResize ==
    /\ resized = NotCalled
    /\ resized' = resize_image(image, resize_args.size, resize_args.default_square,
                               resize_args.letterbox_color, resize_args.max_size)
    /\ UNCHANGED <<image, resize_args, docVars, batchVars, rtVars, disk>>

NextResize == CallResize

SpecResize == InitResize /\ [][NextResize]_vars

-----------------------------------------------------------------------------
(* Document scenario: one call of clean_document_for_img_ocr, as the batch   *)
(* drivers make it (output root "out", thumbnails off or under "thumbs")    *)

PageShapes == {<<4, 2>>, <<1, 6>>}

Extensions == {"png", "JPG", "TIFF", "pdf"}

FrameOrientations ==
    UNION {[1..n -> Orientations] : n \in 1..MaxFrames}

Documents ==
    {SourceFile("a", "doc", ext, Garbage) : ext \in Extensions}
    \cup {SourceFile("a", "doc", ext, PdfBytes(s[1], s[2], n)) :
              ext \in Extensions, s \in PageShapes, n \in 0..MaxPages}
    \cup {SourceFile("a", "doc", ext, ImageBytes(s[1], s[2], o)) :
              ext \in Extensions, s \in PageShapes, o \in FrameOrientations}

\* lines 155-156, 153-154: the defaults of clean_document_for_img_ocr
DefaultAllowedFormats == {"jpg", "jpeg", "png"}

\* Thumbnail settings: stretch to a square, letterbox, short edge with and
\* without max_size, short edge with a max_size below the size
ThumbSettings ==
    {[size |-> <<2, 2>>, default_square |-> TRUE, letterbox_color |-> None, max_size |-> None],
     [size |-> <<2, 2>>, default_square |-> TRUE, letterbox_color |-> <<255, 255, 255>>,
      max_size |-> None],
     [size |-> <<2>>, default_square |-> FALSE, letterbox_color |-> None, max_size |-> None],
     [size |-> <<2>>, default_square |-> FALSE, letterbox_color |-> None, max_size |-> <<3>>],
     [size |-> <<2>>, default_square |-> FALSE, letterbox_color |-> None, max_size |-> <<1>>]}

DefaultThumbSetting ==
    [size |-> <<2, 2>>, default_square |-> TRUE, letterbox_color |-> None, max_size |-> None]

CallArgs(to_basepath, thumbs_basepath, image_format, t) ==
    [to_basepath |-> to_basepath, thumbs_basepath |-> thumbs_basepath,
     pdf_image_format |-> image_format, allowed_formats |-> DefaultAllowedFormats,
     preferred_image_format |-> image_format,
     thumbs_size |-> t.size, thumbs_default_square |-> t.default_square,
     thumbs_letterbox_color |-> t.letterbox_color, thumbs_max_size |-> t.max_size]

DocCallArgs ==
    {CallArgs("out", "", "png", DefaultThumbSetting)}
    \cup {CallArgs("out", "thumbs", "png", t) : t \in ThumbSettings}

InitDoc ==
    /\ document \in Documents
    /\ call_args \in DocCallArgs
    /\ returned = NotCalled
    /\ disk = EmptyDisk
    /\ IdleResize
    /\ IdleBatch
    /\ IdleRt

CleanDocument ==
    /\ returned = NotCalled
    /\ returned' = clean_document_for_img_ocr(document, call_args)
    /\ disk' = DiskAfter(disk, returned'.writes)
    /\ UNCHANGED <<document, call_args, resizeVars, batchVars, rtVars>>

NextDoc == CleanDocument

SpecDoc == InitDoc /\ [][NextDoc]_vars

-----------------------------------------------------------------------------
(* Batch scenario: the worker-pool main loop (lines 469-505) and            *)
(* clean_dataset_for_img_ocr (lines 384-418) over a listing of documents    *)

\* The input folder, in the order sorted() gives the relative paths
\* (line 476): an undecodable PDF, a 2-page PDF, a one-frame TIFF, a PNG, an
\* undecodable PNG, a two-frame TIFF whose first frame is stored upside down,
\* a text file, a JPEG stored on its side.
BatchFiles ==
    <<SourceFile("a", "bad", "pdf", Garbage),
      SourceFile("a", "doc", "pdf", PdfBytes(4, 2, 2)),
      SourceFile("a", "scan", "TIFF", ImageBytes(4, 2, <<1>>)),
      SourceFile("a", "scan", "png", ImageBytes(4, 2, <<NoOrientation>>)),
      SourceFile("b", "broken", "png", Garbage),
      SourceFile("b", "multi", "TIFF", ImageBytes(4, 2, <<3, 1>>)),
      SourceFile("b", "notes", "txt", Garbage),
      SourceFile("b", "photo", "JPG", ImageBytes(4, 2, <<6>>))>>

\* The files of the folder picked by `chosen`, kept in sorted order
ListingOf(chosen) ==
    LET n == Cardinality(chosen)
        at == CHOOSE f \in [1..n -> chosen] : \A i, j \in 1..n : i < j => f[i] < f[j]
    IN  [i \in 1..n |-> BatchFiles[at[i]]]

Listings ==
    {ListingOf(chosen) : chosen \in {c \in SUBSET (1..Len(BatchFiles)) :
                                        Cardinality(c) \in 1..MaxDocs}}

\* lines 459-466 (and 398-412 with the defaults of lines 338-346): the
\* arguments a batch driver passes for every document
BatchCallArgs(thumbnails) ==
    CallArgs("out", thumbnails, "png",
             [size |-> <<224, 224>>, default_square |-> TRUE,
              letterbox_color |-> None, max_size |-> None])

\* lines 459-466
process_doc_in_worker(doc, thumbnails) ==
    clean_document_for_img_ocr(doc, BatchCallArgs(thumbnails))

Job(driver, state, n_workers, thumbnails, ix) ==
    [driver |-> driver, state |-> state, n_workers |-> n_workers,
     thumbnails |-> thumbnails, ix |-> ix]

InitBatch ==
    /\ listing \in Listings
    /\ \E driver \in {"pool", "dataset"}, thumbnails \in {"", "thumbs"},
          n_workers \in 1..MaxWorkers :
          /\ driver = "dataset" => n_workers = 1
          /\ job = Job(driver, "running", n_workers, thumbnails, 1)
    /\ tasks = [i \in 1..Len(listing) |-> "queued"]
    /\ ready = <<>>
    /\ results = <<>>
    /\ disk = EmptyDisk
    /\ IdleResize
    /\ IdleDoc
    /\ IdleRt

Running(driver) == job.driver = driver /\ job.state = "running"

\* Pool.imap_unordered hands the documents out in listing order, one per
\* idle worker
PoolStart(i) ==
    /\ Running("pool")
    /\ tasks[i] = "queued"
    /\ \A j \in 1..(i - 1) : tasks[j] # "queued"
    /\ Cardinality({j \in 1..Len(tasks) : tasks[j] = "running"}) < job.n_workers
    /\ tasks' = [tasks EXCEPT ![i] = "running"]
    /\ UNCHANGED <<listing, job, ready, results, disk, resizeVars, docVars, rtVars>>

\* A worker runs process_doc_in_worker to its end; the pool ships what it
\* returned, or the exception it raised, back to the parent
PoolFinish(i) ==
    /\ Running("pool")
    /\ tasks[i] = "running"
    /\ LET ret == process_doc_in_worker(listing[i], job.thumbnails)
       IN  /\ disk' = DiskAfter(disk, ret.writes)
           /\ ready' = Append(ready, [doc |-> i, ret |-> ret])
    /\ tasks' = [tasks EXCEPT ![i] = "finished"]
    /\ UNCHANGED <<listing, job, results, resizeVars, docVars, rtVars>>

\* lines 490-504: the main loop takes the next finished task.  A task that
\* raised re-raises in the parent: the loop ends, the `with Pool` block
\* terminates the workers and the script dies before "All done!".
PoolCollect ==
    /\ Running("pool")
    /\ ready # <<>>
    /\ IF ready[1].ret.kind = "raised"
       THEN /\ job' = [job EXCEPT !.state = "aborted"]
            /\ tasks' = [i \in 1..Len(tasks) |->
                            IF tasks[i] = "finished" THEN "finished" ELSE "terminated"]
            /\ ready' = <<>>
            /\ results' = results
       ELSE /\ job' = [job EXCEPT !.ix = job.ix + 1]
            /\ results' = Append(results, ready[1])
            /\ ready' = Tail(ready)
            /\ tasks' = tasks
    /\ UNCHANGED <<listing, disk, resizeVars, docVars, rtVars>>

\* line 505: "All done!"
PoolAllDone ==
    /\ Running("pool")
    /\ Len(results) = Len(listing)
    /\ job' = [job EXCEPT !.state = "done"]
    /\ UNCHANGED <<listing, tasks, ready, results, disk, resizeVars, docVars, rtVars>>

\* lines 396-415: one turn of the loop of clean_dataset_for_img_ocr
DatasetStep ==
    /\ Running("dataset")
    /\ job.ix <= Len(listing)
    /\ LET ret == clean_document_for_img_ocr(listing[job.ix], BatchCallArgs(job.thumbnails))
       IN  /\ disk' = DiskAfter(disk, ret.writes)
           /\ tasks' = [tasks EXCEPT ![job.ix] = "finished"]
           /\ IF ret.kind = "raised"
              THEN /\ job' = [job EXCEPT !.state = "aborted"]
                   /\ results' = results
              ELSE /\ job' = [job EXCEPT !.ix = job.ix + 1]
                   /\ results' = IF ret.kind = "returned"
                                 THEN Append(results, [doc |-> job.ix, ret |-> ret])
                                 ELSE results
    /\ UNCHANGED <<listing, ready, resizeVars, docVars, rtVars>>

\* lines 417-418: "Done!", return results
DatasetDone ==
    /\ Running("dataset")
    /\ job.ix > Len(listing)
    /\ job' = [job EXCEPT !.state = "done"]
    /\ UNCHANGED <<listing, tasks, ready, results, disk, resizeVars, docVars, rtVars>>

NextBatch ==
    \/ \E i \in 1..Len(listing) : PoolStart(i)
    \/ \E i \in 1..Len(listing) : PoolFinish(i)
    \/ PoolCollect
    \/ PoolAllDone
    \/ DatasetStep
    \/ DatasetDone

SpecBatch == InitBatch /\ [][NextBatch]_vars

-----------------------------------------------------------------------------
(* Real-time scenario: one request through input_fn, predict_fn, output_fn  *)

\* lines 520-528
SINGLE_IMAGE_CONTENT_TYPES == {"image/jpeg", "image/jpg", "image/png"}

SingleImageFormat(content_type) ==
    CASE content_type = "image/jpeg" -> "JPG"
      [] content_type = "image/jpg" -> "JPG"
      [] content_type = "image/png" -> "PNG"

MULTI_IMAGE_CONTENT_TYPES == {"image/tiff"}

PDF_CONTENT_TYPES == {"application/pdf"}

\* line 549, with the variable unset
RT_PREFERRED_IMAGE_FORMAT == "png"

\* PIL Image.save(fp, format=f): f.upper() must be a registered format name.
\* "JPEG" is one; "JPG" is only a file extension, and save raises KeyError.
PIL_SaveFormats == {"PNG", "JPEG", "TIFF", "GIF", "BMP"}

Upper(format) ==
    CASE format = "png" -> "PNG"
      [] format = "jpeg" -> "JPEG"
      [] format = "jpg" -> "JPG"
      [] OTHER -> format

PIL_save_format_ok(format) == Upper(format) \in PIL_SaveFormats

\* A handler's outcome: what it returned, or the exception it raised
Returned(value) == [ok |-> TRUE, value |-> value, error |-> ""]

Raised(error) == [ok |-> FALSE, value |-> None, error |-> error]

\* lines 561-592
input_fn(input_bytes, content_type) ==
    IF content_type \in SINGLE_IMAGE_CONTENT_TYPES
    THEN IF input_bytes.kind = "image"
         THEN Returned([key |-> "image", image |-> FrameOf(input_bytes, 1),
                        doc |-> None, type |-> SingleImageFormat(content_type)])
         ELSE Raised("UnidentifiedImageError")
    ELSE IF content_type \in PDF_CONTENT_TYPES
    THEN Returned([key |-> "doc", image |-> None, doc |-> input_bytes, type |-> "pdf"])
    ELSE IF content_type \in MULTI_IMAGE_CONTENT_TYPES
    THEN Returned([key |-> "doc", image |-> None, doc |-> input_bytes, type |-> "TIFF"])
    ELSE Raised("ValueError")

\* lines 631-643: the call predict_fn makes, output and thumbnails both
\* going to tmpdir_out
PredictCallArgs(tmpdir_out, settings) ==
    CallArgs(tmpdir_out, tmpdir_out, RT_PREFERRED_IMAGE_FORMAT, settings)

\* lines 645-649: one image per file found in tmpdir_out (os.listdir gives
\* them in no particular order: a set)
ListedImages(files) == {[filename |-> path, img |-> files[path].img] : path \in DOMAIN files}

\* line 621: TemporaryDirectory() on entering and on leaving the `with` block
MakeTemporaryDirectory(dirs) == dirs \cup {"tmpdir"}

CleanupTemporaryDirectory(dirs) == dirs \ {"tmpdir"}

\* line 621: leaving the `with` block.  TemporaryDirectory.__exit__ cleans up
\* whether the block ends by return (`returning`) or by an exception.
CleanupOnlyOnReturn(dirs, returning) ==
    IF returning THEN CleanupTemporaryDirectory(dirs) ELSE dirs

ExitTemporaryDirectory(dirs, returning) == CleanupTemporaryDirectory(dirs)

\* lines 622, 628: tmpdir/in and tmpdir/out, the two roots inside the directory
TmpdirRoots == {"tmpdir_in", "tmpdir_out"}

\* The files left once the directories `dirs` are the ones that exist: the
\* tree under a removed temporary directory goes with it
RemoveTree(files, dirs) ==
    IF "tmpdir" \in dirs
    THEN files
    ELSE [path \in {q \in DOMAIN files : q[1] \notin TmpdirRoots} |-> files[path]]

\* lines 624-627: the request body stored as tmpdir/in/doc.<type>
InputCopy(data) ==
    Written(Path("tmpdir_in", "", "doc", <<>>, data.type), "input",
            <<"", "doc", data.type>>, None)

\* lines 631-643: the call on the stored copy
CleanDocInTmpdir(data, settings) ==
    clean_document_for_img_ocr(SourceFile("", "doc", data.type, data.doc),
                               PredictCallArgs("tmpdir_out", settings))

\* lines 607-618: the single-image branch.  A None from resize_image is
\* passed on as it is.
PredictImage(img, settings) ==
    LET outcome == resize_image(img, settings.size, settings.default_square,
                                settings.letterbox_color, settings.max_size)
    IN  IF outcome.kind = "ValueError"
        THEN Raised("ValueError")
        ELSE Returned([key |-> "image",
                       image |-> IF outcome.kind = "None" THEN None
                                 ELSE ThumbImage(img, outcome),
                       images |-> {}])

\* lines 619-651: the document branch.  The value clean_document_for_img_ocr
\* returns is not looked at; an exception it raises leaves predict_fn.
PredictDoc(data, settings) ==
    LET ret == CleanDocInTmpdir(data, settings)
    IN  IF ret.kind = "raised"
        THEN Raised(ret.error)
        ELSE Returned([key |-> "images", image |-> None,
                       images |-> ListedImages(DiskAfter(EmptyDisk, ret.writes))])

\* lines 595-654
predict_fn(data, settings) ==
    IF data.key = "image"
    THEN PredictImage(data.image, settings)
    ELSE PredictDoc(data, settings)

\* The body of a response: `format` is "image" (encoded image bytes), "npy"
\* or "npz"; `field` the archive key of an npz; `count` the number of encoded
\* page images in the array (0 for pixel data)
Body(format, field, count) == [format |-> format, field |-> field, count |-> count]

\* lines 657-710
output_fn(prediction_output, accept) ==
    IF accept \in SINGLE_IMAGE_CONTENT_TYPES
    THEN IF prediction_output.key = "image"
         THEN IF prediction_output.image = None
              THEN Raised("AttributeError")
              ELSE IF ~PIL_save_format_ok(SingleImageFormat(accept))
              THEN Raised("KeyError")
              ELSE Returned(Body("image", "", 0))
         ELSE Raised("ValueError")
    ELSE IF accept \in {"application/x-npy", "application/x-npz"}
    THEN LET is_npz == accept = "application/x-npz"
         IN  IF prediction_output.key = "image"
             THEN IF prediction_output.image = None
                  THEN Raised("AttributeError")
                  ELSE Returned(Body(IF is_npz THEN "npz" ELSE "npy",
                                     IF is_npz THEN "image" ELSE "", 0))
             ELSE IF ~PIL_save_format_ok(RT_PREFERRED_IMAGE_FORMAT)
                     /\ prediction_output.images # {}
                  THEN Raised("KeyError")
                  ELSE Returned(Body(IF is_npz THEN "npz" ELSE "npy",
                                     IF is_npz THEN "images" ELSE "",
                                     Cardinality(prediction_output.images)))
    ELSE Raised("ValueError")

ContentTypes ==
    SINGLE_IMAGE_CONTENT_TYPES \cup MULTI_IMAGE_CONTENT_TYPES \cup PDF_CONTENT_TYPES
    \cup {"text/plain"}

AcceptTypes ==
    SINGLE_IMAGE_CONTENT_TYPES
    \cup {"application/x-npy", "application/x-npz", "image/tiff", "text/plain"}

\* Frames stored upright or upside down
PayloadOrientations ==
    UNION {[1..n -> {NoOrientation, 3}] : n \in 1..MaxFrames}

Payloads ==
    {Garbage}
    \cup {PdfBytes(s[1], s[2], n) : s \in PageShapes, n \in 0..MaxPages}
    \cup {ImageBytes(s[1], s[2], o) : s \in PageShapes, o \in PayloadOrientations}

Requests == [content_type : ContentTypes, accept : AcceptTypes, payload : Payloads]

InitRt ==
    /\ request \in Requests
    /\ env \in ThumbSettings
    /\ handler = "input_fn"
    /\ input_data = None
    /\ prediction = None
    /\ response = None
    /\ tmpdirs = {}
    /\ disk = EmptyDisk
    /\ IdleResize
    /\ IdleDoc
    /\ IdleBatch

RtInput ==
    /\ handler = "input_fn"
    /\ LET r == input_fn(request.payload, request.content_type)
       IN  IF r.ok
           THEN /\ input_data' = r.value
                /\ handler' = "predict_fn"
                /\ response' = response
           ELSE /\ input_data' = input_data
                /\ handler' = "failed"
                /\ response' = r
    /\ UNCHANGED <<request, env, prediction, tmpdirs, disk, resizeVars, docVars, batchVars>>

\* lines 607-618: predict_fn on a single-image request, from entry to exit
RtPredict ==
    /\ handler = "predict_fn"
    /\ input_data.key = "image"
    /\ LET r == predict_fn(input_data, env)
       IN  IF r.ok
           THEN /\ prediction' = r.value
                /\ handler' = "output_fn"
                /\ response' = response
           ELSE /\ prediction' = prediction
                /\ handler' = "failed"
                /\ response' = r
    /\ UNCHANGED <<request, env, input_data, tmpdirs, disk, resizeVars, docVars, batchVars>>

\* lines 619-629: predict_fn on a document request enters the `with` block:
\* the temporary directory is made and the request body stored in it
RtEnterTmpdir ==
    /\ handler = "predict_fn"
    /\ input_data.key = "doc"
    /\ tmpdirs' = MakeTemporaryDirectory(tmpdirs)
    /\ disk' = DiskAfter(disk, <<InputCopy(input_data)>>)
    /\ handler' = "predict_fn:with"
    /\ UNCHANGED <<request, env, input_data, prediction, response,
                   resizeVars, docVars, batchVars>>

\* lines 631-651: the body of the `with` block.  The page files written
\* before the body ended (by return or by raise) are in the directory.
RtProcessDoc ==
    /\ handler = "predict_fn:with"
    /\ LET r == predict_fn(input_data, env)
       IN  IF r.ok
           THEN /\ prediction' = r.value
                /\ response' = response
           ELSE /\ prediction' = prediction
                /\ response' = r
    /\ disk' = DiskAfter(disk, CleanDocInTmpdir(input_data, env).writes)
    /\ handler' = "predict_fn:exit"
    /\ UNCHANGED <<request, env, input_data, tmpdirs, resizeVars, docVars, batchVars>>

\* line 621: the `with` block is left and predict_fn with it, returning the
\* dict or passing the exception on
RtExitTmpdir ==
    /\ handler = "predict_fn:exit"
    /\ tmpdirs' = ExitTemporaryDirectory(tmpdirs, prediction # None)
    /\ disk' = RemoveTree(disk, tmpdirs')
    /\ handler' = IF prediction # None THEN "output_fn" ELSE "failed"
    /\ UNCHANGED <<request, env, input_data, prediction, response,
                   resizeVars, docVars, batchVars>>

RtOutput ==
    /\ handler = "output_fn"
    /\ response' = output_fn(prediction, request.accept)
    /\ handler' = IF response'.ok THEN "responded" ELSE "failed"
    /\ UNCHANGED <<request, env, input_data, prediction, tmpdirs, disk,
                   resizeVars, docVars, batchVars>>

NextRt == RtInput \/ RtPredict \/ RtEnterTmpdir \/ RtProcessDoc \/ RtExitTmpdir \/ RtOutput

SpecRt == InitRt /\ [][NextRt]_vars

-----------------------------------------------------------------------------
(* Claims about resize_image, checked under SpecResize *)

Called == resized # NotCalled

SingleNumber == Len(resize_args.size) = 1

ShortEdgeMode == SingleNumber /\ ~resize_args.default_square

SourceShort == ShortLong(image.w, image.h)[1]

SourceLong == ShortLong(image.w, image.h)[2]

MaxSizeTooSmall ==
    /\ SingleNumber
    /\ resize_args.max_size # None
    /\ resize_args.max_size[1] <= resize_args.size[1]

RejectedMaxSize == resized.kind = "ValueError" /\ resized.why = "max_size"

C5_WitnessNotRejected ==
    /\ Called /\ MaxSizeTooSmall /\ resize_args.default_square
    /\ resized.kind = "resized"

LetterboxTarget ==
    IF SingleNumber
    THEN <<resize_args.size[1], resize_args.size[1]>>
    ELSE resize_args.size

\* C6: with a letterbox colour and a target (width, height), resize_image
\* returns an image of exactly (width, height) holding the source scaled by
\* min(width/iw, height/ih), centred.
C6_LetterboxReturnsCanvas ==
    (/\ Called
     /\ resize_args.letterbox_color # None
     /\ (~SingleNumber \/ resize_args.default_square))
    => (/\ resized.kind = "resized"
        /\ resized.size = LetterboxTarget
        /\ resized.inner = LetterboxInner(image.w, image.h,
                                          LetterboxTarget[1], LetterboxTarget[2])
        /\ 2 * resized.offset[1] + resized.inner[1] \in
               {LetterboxTarget[1], LetterboxTarget[1] - 1}
        /\ 2 * resized.offset[2] + resized.inner[2] \in
               {LetterboxTarget[2], LetterboxTarget[2] - 1})

\* C7: in single-number mode with default_square false, a source whose short
\* edge already equals the requested size is returned unchanged, for every
\* max_size and letterbox setting.
C7_IdentityWhenShortEdgeMatches ==
    (Called /\ ShortEdgeMode /\ SourceShort = resize_args.size[1])
    => (resized.kind = "unchanged" /\ resized.size = <<image.w, image.h>>)

C7_Witness ==
    /\ Called /\ ShortEdgeMode /\ SourceShort = resize_args.size[1]
    /\ image.w > image.h
    /\ MaxSizeTooSmall
    /\ resize_args.letterbox_color # None
    /\ resized.kind = "unchanged"

\* The case C8 is about: single-number mode, default_square false, no
\* letterbox, max_size > size, source short edge different from size.
C8_Case ==
    /\ Called /\ ShortEdgeMode
    /\ resize_args.letterbox_color = None
    /\ resize_args.max_size # None
    /\ resize_args.max_size[1] > resize_args.size[1]
    /\ SourceShort # resize_args.size[1]

C8_Unclamped == (resize_args.size[1] * SourceLong) \div SourceShort

C8_Edges ==
    LET tshort == Min(resized.size[1], resized.size[2])
        tlong == Max(resized.size[1], resized.size[2])
        size == resize_args.size[1]
        max_size == resize_args.max_size[1]
    IN  /\ tlong <= max_size
        /\ C8_Unclamped > max_size =>
              /\ tlong = max_size
              /\ tshort = (max_size * size) \div C8_Unclamped
              /\ tshort < size
        /\ C8_Unclamped <= max_size =>
              /\ tshort = size
              /\ tlong = C8_Unclamped

\* C8 as claimed: in that case the long edge never exceeds max_size; if
\* floor(size*ilong/ishort) exceeds max_size the long edge is max_size and the
\* short edge floor(max_size*size/long), below size; otherwise the short edge
\* is size and the long edge floor(size*ilong/ishort); and width <= height
\* iff the source's width <= height.
C8_EdgesAndSameOrientation ==
    C8_Case =>
        /\ C8_Edges
        /\ (resized.size[1] <= resized.size[2]) <=> (image.w <= image.h)

\* C8 as amended: the same edges hold of the target size resize_image
\* computes (the output's size whenever image.resize accepts it); a source
\* with width <= height gives width <= height, a source with width > height
\* gives width >= height (the two edges may come out equal).
C8_EdgesAndWeakOrientation ==
    C8_Case =>
        /\ resized.kind \in {"resized", "ValueError"}
        /\ resized.kind = "ValueError" =>
              (resized.why = "resize" /\ ~PIL_resize_ok(resized.size))
        /\ C8_Edges
        /\ image.w <= image.h => resized.size[1] <= resized.size[2]
        /\ image.w > image.h => resized.size[1] >= resized.size[2]

\* Clamped: the long edge was cut to max_size and the short edge fell below size.
C8_Witness ==
    /\ C8_Case
    /\ C8_Unclamped > resize_args.max_size[1]
    /\ resized.kind = "resized"
    /\ Max(resized.size[1], resized.size[2]) = resize_args.max_size[1]
    /\ Min(resized.size[1], resized.size[2]) < resize_args.size[1]

-----------------------------------------------------------------------------
(* Claims about clean_document_for_img_ocr, checked under SpecDoc *)

DocCalled == returned # NotCalled

NonPdfSource == Lower(document.ext) # "pdf"

PagesDone == {returned.pages[i] : i \in 1..Len(returned.pages)}

C1_CopyCondition(page) ==
    /\ Len(document.data.frames) = 1
    /\ Lower(document.ext) \in call_args.allowed_formats
    /\ page.orientation \notin {3, 6, 8}

\* C1: for a non-PDF source the original file is copied verbatim (same bytes,
\* same file name) to the output folder if and only if the source has exactly
\* one frame, its lower-cased extension is an allowed format and its
\* orientation is not 3, 6 or 8; in every other case the page is written
\* with image.save.
C1_CopiedVerbatimIffUntouched ==
    (DocCalled /\ NonPdfSource) =>
        /\ document.data.kind = "image" => Len(returned.pages) >= 1
        /\ \A page \in PagesDone :
              /\ page.how = "copy" <=> C1_CopyCondition(page)
              /\ page.how = "copy" =>
                    /\ page.path = Path(call_args.to_basepath, document.subfolder,
                                        document.basename, <<>>, document.ext)
                    /\ disk[page.path].how = "copy"
                    /\ disk[page.path].source = RelPath(document)
              /\ page.how # "copy" =>
                    /\ page.how = "save"
                    /\ disk[page.path].how = "save"

\* An upper-case .JPG with orientation 1 was copied across.
C1_Witness ==
    /\ DocCalled /\ document.ext = "JPG"
    /\ returned.kind = "returned"
    /\ Len(returned.pages) = 1
    /\ returned.pages[1].orientation = 1
    /\ returned.pages[1].how = "copy"
    /\ disk[returned.pages[1].path].how = "copy"

\* C2: the orientation step rotates by 180 for code 3, 270 for code 6, 90 for
\* code 8 and not at all for anything else (absent, 1, 2, 4, 5, 7,
\* unrecognized); the page's `rotated` flag is true exactly for 3, 6 and 8.
C2_RotationByOrientation ==
    DocCalled =>
        \A page \in PagesDone :
            /\ page.orientation = 3 => page.angle = 180
            /\ page.orientation = 6 => page.angle = 270
            /\ page.orientation = 8 => page.angle = 90
            /\ page.orientation \notin {3, 6, 8} => page.angle = 0
            /\ page.rotated <=> page.orientation \in {3, 6, 8}

\* The last frame of a two-frame image carried code 6 and was turned by 270.
C2_Witness ==
    /\ DocCalled
    /\ Len(returned.pages) = 2
    /\ returned.pages[1].orientation = NoOrientation
    /\ returned.pages[1].angle = 0
    /\ returned.pages[2].orientation = 6
    /\ returned.pages[2].angle = 270
    /\ returned.pages[2].rotated

-----------------------------------------------------------------------------
(* Claims about the batch drivers, checked under SpecBatch *)

\* A document no codec can read: bytes that are no PDF under a .pdf name, or
\* bytes PIL cannot identify under any other name (an unsupported extension).
Unreadable(doc) ==
    IF Lower(doc.ext) = "pdf" THEN doc.data.kind # "pdf" ELSE doc.data.kind # "image"

\* A document the pipeline handles without raising
Sound(doc) ==
    /\ ~Unreadable(doc)
    /\ process_doc_in_worker(doc, job.thumbnails).kind = "returned"

DocsReceived == {results[k].doc : k \in 1..Len(results)}

\* C3: in a listing whose only failures are unreadable or unsupported
\* documents, no such document aborts the batch: the run is never cut short,
\* and when it has logged completion every other document has been processed
\* and its result received, while the unreadable ones yielded no result.
C3_UnreadableDocumentsAreSkipped ==
    (\A i \in 1..Len(listing) : Unreadable(listing[i]) \/ Sound(listing[i])) =>
        /\ job.state # "aborted"
        /\ job.state = "done" =>
              \A i \in 1..Len(listing) :
                  /\ tasks[i] = "finished"
                  /\ Sound(listing[i]) =>
                        (i \in DocsReceived /\ \E k \in 1..Len(results) :
                            results[k].doc = i /\ results[k].ret.kind = "returned")
                  /\ Unreadable(listing[i]) =>
                        \A k \in 1..Len(results) :
                            results[k].doc = i => results[k].ret.kind = "None"

-----------------------------------------------------------------------------
(* Claims about the real-time handlers, checked under SpecRt *)

DocumentRequest == request.content_type \in PDF_CONTENT_TYPES \cup MULTI_IMAGE_CONTENT_TYPES

\* The payload is not what its content type says: no PDF, or no image
UndecodablePayload ==
    IF request.content_type \in PDF_CONTENT_TYPES
    THEN request.payload.kind # "pdf"
    ELSE request.payload.kind # "image"

PredictReturned == handler \in {"output_fn", "responded"} \/ prediction # None

RequestOver == handler \in {"responded", "failed"}

\* C4: a document request (PDF or multi-frame image) whose bytes the codec
\* cannot decode fails the request: predict_fn never returns a result for it.
C4_UnreadableDocumentFailsRequest ==
    (DocumentRequest /\ UndecodablePayload) => ~PredictReturned

\* C9: a request with content type application/pdf and accept type
\* application/x-npz over a PDF of N pages is answered with an archive whose
\* single key "images" holds exactly N encoded images (stated for the
\* settings that target a square, where max_size plays no part, and for
\* pages no smaller than the thumbnail).
C9_PdfGivesOneImagePerPage ==
    (/\ RequestOver
     /\ env.default_square
     /\ request.payload.w >= env.size[1]
     /\ request.payload.h >= env.size[1]
     /\ request.content_type = "application/pdf"
     /\ request.accept = "application/x-npz"
     /\ request.payload.kind = "pdf")
    => (/\ handler = "responded"
        /\ response.value = Body("npz", "images", Len(request.payload.frames)))

\* The pairs C10 says must fail
C10_MustFail ==
    \/ request.content_type \notin
           SINGLE_IMAGE_CONTENT_TYPES \cup MULTI_IMAGE_CONTENT_TYPES \cup PDF_CONTENT_TYPES
    \/ request.accept \notin
           SINGLE_IMAGE_CONTENT_TYPES \cup {"application/x-npy", "application/x-npz"}
    \/ (request.accept \in SINGLE_IMAGE_CONTENT_TYPES /\ DocumentRequest)

\* A payload that is what its content type says, stored upright, with the
\* settings left at stretch-to-square
C10_PlainRequest ==
    /\ env = DefaultThumbSetting
    /\ request.content_type \in PDF_CONTENT_TYPES => request.payload.kind = "pdf"
    /\ request.content_type \in SINGLE_IMAGE_CONTENT_TYPES \cup MULTI_IMAGE_CONTENT_TYPES =>
          /\ request.payload.kind = "image"
          /\ \A k \in 1..Len(request.payload.frames) :
                request.payload.frames[k] = NoOrientation
    /\ request.content_type \in SINGLE_IMAGE_CONTENT_TYPES =>
          Len(request.payload.frames) = 1

\* C10: over every pair (content type, accept type), for a plain request: the
\* request fails if and only if the content type is not recognized, or the
\* accept type is neither a single-image type nor application/x-npy nor
\* application/x-npz, or the accept type is a single-image type while the
\* request is a document; every other pair is answered, from "image" for
\* single-image requests and from "images" for document requests.
C10_FailsIffKindsMismatch ==
    (RequestOver /\ C10_PlainRequest) =>
        /\ handler = "failed" <=> C10_MustFail
        /\ handler = "responded" =>
              prediction.key = IF DocumentRequest THEN "images" ELSE "image"


\* predict_fn has been left on a document request
PredictDocExited ==
    /\ handler \in {"output_fn", "responded", "failed"}
    /\ input_data # None
    /\ input_data.key = "doc"

\* No temporary directory exists, and no file under one
TmpdirGone ==
    /\ tmpdirs = {}
    /\ \A path \in DOMAIN disk : path[1] \notin TmpdirRoots

\* C11: for every real-time document request, once predict_fn has exited the
\* temporary directory it created (with the input copy and the page files)
\* no longer exists, whether predict_fn returned or an exception left it.
C11_TmpdirRemovedOnEveryExit == PredictDocExited => TmpdirGone

\* A document request whose processing raised inside the `with` block after
\* page files had been written, predict_fn now left
C11_Witness ==
    /\ PredictDocExited
    /\ handler = "failed"
    /\ response.error = "AttributeError"
    /\ CleanDocInTmpdir(input_data, env).writes # <<>>
    /\ TmpdirGone

\* The same for a request that returned its images
C11_WitnessReturned ==
    /\ PredictDocExited
    /\ handler = "responded"
    /\ prediction.images # {}
    /\ TmpdirGone

\* Inside the `with` block the directory and its files do exist
C11_WitnessInside ==
    /\ handler = "predict_fn:exit"
    /\ tmpdirs # {}
    /\ \E path \in DOMAIN disk : path[1] = "tmpdir_out"
    /\ \E path \in DOMAIN disk : path[1] = "tmpdir_in"

-----------------------------------------------------------------------------
(* Claims about concurrent batch workers, checked under SpecBatch *)

\* The documents a pool worker has taken up so far
TakenUp == {i \in 1..Len(listing) : tasks[i] # "queued"}

\* The output paths (page images and thumbnails) document i's worker writes
OutputPaths(i) == WrittenPaths(process_doc_in_worker(listing[i], job.thumbnails).writes)

\* C12: in batch mode, any two distinct documents of the listing processed by
\* pool workers write disjoint sets of output paths (page images and
\* thumbnails), documents of one subfolder with one base name and different
\* extensions included.
C12_OutputPathsDisjoint ==
    job.driver = "pool" =>
        \A i, j \in TakenUp : i # j => OutputPaths(i) \cap OutputPaths(j) = {}

-----------------------------------------------------------------------------
(* Claims about multi-page documents and output names, checked under SpecDoc *)

\* A decodable image file of several frames, cleaned without thumbnails
MultiFrameCall ==
    /\ DocCalled
    /\ NonPdfSource
    /\ document.data.kind = "image"
    /\ Len(document.data.frames) > 1
    /\ call_args.thumbs_basepath = ""

\* C13: a multi-frame image of N > 1 frames, whatever the frames' orientation
\* codes, gives exactly N output pages in stored frame order, with suffixes
\* -0001 .. -N; page k comes from frame k and is turned by frame k's own
\* orientation code only, whatever was done to an earlier frame.
C13_OnePagePerFrameInOrder ==
    MultiFrameCall =>
        LET n == Len(document.data.frames)
        IN  /\ returned.kind = "returned"
            /\ Len(returned.cleanpaths) = n
            /\ Len(returned.pages) = n
            /\ \A k \in 1..n :
                  /\ returned.cleanpaths[k][4] = <<k>>
                  /\ returned.cleanpaths[k] \in DOMAIN disk
                  /\ returned.pages[k].index = k
                  /\ returned.pages[k].frame = k
                  /\ returned.pages[k].orientation = document.data.frames[k]
                  /\ returned.pages[k].angle = RotationFor(document.data.frames[k])

\* line 306: image.save(outpath) picks the file format from the extension of
\* outpath, lower-cased, through PIL's table of registered extensions
PIL_FormatOfExtension(ext) ==
    CASE Lower(ext) \in {"jpg", "jpeg"} -> "JPEG"
      [] Lower(ext) = "png" -> "PNG"
      [] Lower(ext) \in {"tif", "tiff"} -> "TIFF"
      [] OTHER -> "unknown"

\* The image pages written by image.save, not copied
SavedPages == {page \in PagesDone : page.how = "save"}

\* The file of a saved page carries a page-index suffix exactly when the
\* source has more than one page
C14_SuffixIffSeveralPages ==
    (DocCalled /\ NonPdfSource) =>
        \A page \in SavedPages :
            page.path[4] # <<>> <=> Len(document.data.frames) > 1

\* C14: every image page that is not copied verbatim is written in the
\* preferred output format (default PNG), and its file name carries a
\* page-index suffix if and only if the document has more than one page.
C14_SavedInPreferredFormat ==
    (DocCalled /\ NonPdfSource /\ returned.kind = "returned") =>
        \A page \in SavedPages :
            /\ PIL_FormatOfExtension(page.path[5])
                  = PIL_FormatOfExtension(call_args.preferred_image_format)
            /\ page.path[4] # <<>> <=> Len(document.data.frames) > 1

-----------------------------------------------------------------------------
(* Claims about computed sizes, checked under SpecResize *)

\* An accepted resize configuration: max_size absent, or above the requested
\* size (sizes are positive in every configuration of the scenario)
AcceptedConfig ==
    \/ resize_args.max_size = None
    \/ \A i \in 1..Len(resize_args.size) : resize_args.max_size[1] > resize_args.size[i]

\* C15: for every source image of positive width and height and every
\* accepted resize configuration, the target dimensions resize_image computes
\* are both at least 1: the short edge after the max_size clamp, the long
\* edge and the letterbox inner size are never 0.
C15_TargetDimensionsPositive ==
    (Called /\ AcceptedConfig) =>
        /\ resized.size # None
        /\ PIL_resize_ok(resized.size)
        /\ resized.inner # None => PIL_resize_ok(resized.inner)

=============================================================================
